---- MODULE Spec2Model ----
(***************************************************************************)
(* danmaku2ass (Go): format probe, the three platform parsers, the ASS     *)
(* generator and the command-line driver, as a state machine.              *)
(*                                                                         *)
(* Text is a sequence of one-character strings.  A time held in a Comment  *)
(* is written in milliseconds and stands for the float64 nearest to that   *)
(* many thousandths of a second; float64 values themselves are kept as     *)
(* fixed-point naturals (value * 2^FracBits) in base-2^LimbBits limbs, so  *)
(* that every rounding of the IEEE-754 arithmetic is computed.  A size is  *)
(* written in hundredths of a display unit.                                *)
(***************************************************************************)
EXTENDS Integers, Sequences, FiniteSets

VARIABLES
    files,        \* cfg.InputFiles: the input files, in argument order
    fontSize,     \* cfg.FontSize
    outEnv,       \* what the output path does: "ok", "createFails", "diskFull"
    idx,          \* main: index of the file the loop is at (1-based)
    pc,           \* position of the running function
    pos,          \* read offset of the open *os.File
    format,       \* main: format returned by ProbeFormat
    allComments,  \* main: allComments
    stderr,       \* diagnostics written to os.Stderr
    events,       \* GenerateASS: events returned by generateEvents
    outFile,      \* what WriteString put into the output file
    stdout,       \* TRUE once the success message is printed
    exitCode,     \* -1 while running, then the process status
    genCalls,     \* number of calls of GenerateASS
    fn,           \* the function that runs: main, or one called on its own
    arg,          \* argument of a function called on its own
    ret           \* its result

driverVars == <<files, fontSize, outEnv, idx, pc, pos, format, allComments,
                stderr, events, outFile, stdout, exitCode, genCalls>>
vars == <<files, fontSize, outEnv, idx, pc, pos, format, allComments,
          stderr, events, outFile, stdout, exitCode, genCalls, fn, arg, ret>>

None == "none"

----------------------------------------------------------------------------
(* float64 arithmetic                                                      *)

Mantissa == 53
FracBits == 62
GuardBits == 16
LimbBits == 10
Base == 2^LimbBits

RECURSIVE LimbsOfNat(_)
LimbsOfNat(n) == IF n = 0 THEN << >> ELSE <<n % Base>> \o LimbsOfNat(n \div Base)

RECURSIVE NatOfLimbs(_)
NatOfLimbs(b) == IF b = << >> THEN 0 ELSE b[1] + Base * NatOfLimbs(Tail(b))

RECURSIVE Normalize(_)
Normalize(b) ==
    IF b = << >> THEN << >>
    ELSE IF b[Len(b)] = 0 THEN Normalize(SubSeq(b, 1, Len(b) - 1)) ELSE b

RECURSIVE SmallBitLen(_)
SmallBitLen(n) == IF n = 0 THEN 0 ELSE 1 + SmallBitLen(n \div 2)

BitLen(b) == IF b = << >> THEN 0 ELSE LimbBits * (Len(b) - 1) + SmallBitLen(b[Len(b)])

RECURSIVE MulFrom(_, _, _, _)
MulFrom(b, c, i, carry) ==
    IF i > Len(b) THEN LimbsOfNat(carry)
    ELSE <<(b[i] * c + carry) % Base>> \o MulFrom(b, c, i + 1, (b[i] * c + carry) \div Base)
BigMul(b, c) == Normalize(MulFrom(b, c, 1, 0))

RECURSIVE DivFrom(_, _, _, _)
DivFrom(b, d, i, r) ==
    IF i = 0 THEN <<r>>
    ELSE DivFrom(b, d, i - 1, (r * Base + b[i]) % d) \o <<(r * Base + b[i]) \div d>>
BigDiv(b, d) == Normalize(Tail(DivFrom(b, d, Len(b), 0)))

LimbAt(b, i) == IF i <= Len(b) THEN b[i] ELSE 0
RECURSIVE AddFrom(_, _, _, _)
AddFrom(a, b, i, carry) ==
    IF i > Len(a) /\ i > Len(b) THEN LimbsOfNat(carry)
    ELSE <<(LimbAt(a, i) + LimbAt(b, i) + carry) % Base>>
         \o AddFrom(a, b, i + 1, (LimbAt(a, i) + LimbAt(b, i) + carry) \div Base)
BigAdd(a, b) == AddFrom(a, b, 1, 0)

ShiftLeft(b, k) ==
    IF b = << >> THEN << >>
    ELSE [i \in 1..(k \div LimbBits) |-> 0] \o BigMul(b, 2^(k % LimbBits))
ShiftRight(b, k) ==
    BigDiv(SubSeq(b, (k \div LimbBits) + 1, Len(b)), 2^(k % LimbBits))
LowBits(b, k) ==
    IF Len(b) <= k \div LimbBits THEN b
    ELSE Normalize(SubSeq(b, 1, k \div LimbBits) \o <<b[(k \div LimbBits) + 1] % 2^(k % LimbBits)>>)
BitAt(b, k) == (LimbAt(b, (k \div LimbBits) + 1) \div 2^(k % LimbBits)) % 2

\* round half to even: kept holds the leading Mantissa bits of b
RoundUp(b, kept, drop, sticky) ==
    /\ BitAt(b, drop - 1) = 1
    /\ (sticky \/ LowBits(b, drop - 1) # << >> \/ kept[1] % 2 = 1)

RoundKept(b, kept, drop, sticky) ==
    ShiftLeft(IF RoundUp(b, kept, drop, sticky) THEN BigAdd(kept, <<1>>) ELSE kept, drop)

RoundDrop(b, drop, sticky) ==
    IF drop <= 0 THEN b ELSE RoundKept(b, ShiftRight(b, drop), drop, sticky)

\* b rounded to Mantissa significant bits; sticky: bits below b were lost
Round53(b, sticky) == RoundDrop(b, BitLen(b) - Mantissa, sticky)

RoundQuotient(qr) == Round53(Normalize(Tail(qr)), Head(qr) # 0)

\* the float64 nearest to ms / 1000
ToFloat(ms) ==
    ShiftRight(RoundQuotient(DivFrom(ShiftLeft(LimbsOfNat(ms), FracBits + GuardBits), 1000,
                                     Len(ShiftLeft(LimbsOfNat(ms), FracBits + GuardBits)), 0)),
               GuardBits)

FMul(x, c) == Round53(BigMul(x, c), FALSE)
FAdd(x, y) == Round53(BigAdd(x, y), FALSE)
Floor(x) == NatOfLimbs(ShiftRight(x, FracBits))
Frac(x) == LowBits(x, FracBits)

----------------------------------------------------------------------------
(* fmt.Sprintf verbs                                                       *)

DigitChar(d) == <<"0", "1", "2", "3", "4", "5", "6", "7", "8", "9">>[d + 1]

RECURSIVE FmtD(_)
\* %d of a non-negative integer
FmtD(n) == IF n < 10 THEN <<DigitChar(n)>> ELSE FmtD(n \div 10) \o <<DigitChar(n % 10)>>

\* %02d of a non-negative integer
Fmt02D(n) == IF n < 10 THEN <<"0">> \o FmtD(n) ELSE FmtD(n)

TimeCode(h, m, s, c) ==
    FmtD(h) \o <<":">> \o Fmt02D(m) \o <<":">> \o Fmt02D(s) \o <<".">> \o Fmt02D(c)

----------------------------------------------------------------------------
(* ass.formatTime                                                          *)

Centisecs(seconds) == Floor(FMul(Frac(seconds), 100))

\* hours, minutes and secs of int(seconds)
Clock(isec, centisecs) ==
    TimeCode(isec \div 3600, (isec % 3600) \div 60, isec % 60, centisecs)

formatTime(seconds) == Clock(Floor(seconds), Centisecs(seconds))

----------------------------------------------------------------------------
(* package strings                                                         *)

Min(a, b) == IF a < b THEN a ELSE b

HasPrefix(s, prefix) ==
    Len(s) >= Len(prefix) /\ SubSeq(s, 1, Len(prefix)) = prefix

Contains(s, substr) ==
    \E i \in 1..(Len(s) - Len(substr) + 1) : SubSeq(s, i, i + Len(substr) - 1) = substr

RECURSIVE Split(_, _)
\* strings.Split(s, sep) for a one-character sep
Split(s, sep) ==
    IF \A i \in 1..Len(s) : s[i] # sep THEN <<s>>
    ELSE LET i == CHOOSE k \in 1..Len(s) : s[k] = sep /\ \A j \in 1..(k - 1) : s[j] # sep
         IN  <<SubSeq(s, 1, i - 1)>> \o Split(SubSeq(s, i + 1, Len(s)), sep)

RECURSIVE ReplaceAll(_, _, _)
\* strings.Replace(s, old, new, -1), old not empty
ReplaceAll(s, old, new) ==
    IF s = << >> THEN << >>
    ELSE IF HasPrefix(s, old)
         THEN new \o ReplaceAll(SubSeq(s, Len(old) + 1, Len(s)), old, new)
         ELSE <<s[1]>> \o ReplaceAll(Tail(s), old, new)

\* strings.Count(s, c) for a one-character c
Count(s, c) == Cardinality({i \in 1..Len(s) : s[i] = c})

RECURSIVE Concat(_)
Concat(ss) == IF ss = << >> THEN << >> ELSE Head(ss) \o Concat(Tail(ss))

----------------------------------------------------------------------------
(* parser.ProbeFormat                                                      *)

FormatBilibili == "Bilibili"
FormatNiconico == "Niconico"
FormatAcfun == "Acfun"

ProbeLen == 100

XmlDecl == <<"<", "?", "x", "m", "l">>
TagI == <<"<", "i", ">">>
TagChat == <<"<", "c", "h", "a", "t", ">">>
Bracket == <<"[">>

\* file.Seek(0, io.SeekCurrent): lseek fails on a pipe (ESPIPE), not otherwise
SeekFails(file) == file.kind = "pipe"

\* file.Read(buf) at offset p: a directory cannot be read (EISDIR); at the end
\* of the file Read returns 0 bytes and io.EOF, which ProbeFormat lets pass
ReadFails(file) == file.kind = "dir"
ReadCount(file, p) == Min(ProbeLen, Len(file.bytes) - Min(p, Len(file.bytes)))

\* ProbeFormat without the deferred Seek: the offset stays after the bytes read
SeekForgotten(curPos, after) == after

\* the deferred file.Seek(curPos, io.SeekStart): the offset the call leaves
SeekRestore(curPos, after) == curPos

\* the classification with the two markers looked for in the other order
ClassifyChatFirst(content) ==
    IF HasPrefix(content, XmlDecl)
    THEN IF Contains(content, TagChat) THEN [format |-> FormatNiconico, err |-> None]
         ELSE IF Contains(content, TagI) THEN [format |-> FormatBilibili, err |-> None]
         ELSE [format |-> "", err |-> "unknown format"]
    ELSE IF HasPrefix(content, Bracket) THEN [format |-> FormatAcfun, err |-> None]
    ELSE [format |-> "", err |-> "unknown format"]

\* the classification of the bytes read
Classify(content) ==
    IF HasPrefix(content, XmlDecl)
    THEN IF Contains(content, TagI) THEN [format |-> FormatBilibili, err |-> None]
         ELSE IF Contains(content, TagChat) THEN [format |-> FormatNiconico, err |-> None]
         ELSE [format |-> "", err |-> "unknown format"]
    ELSE IF HasPrefix(content, Bracket) THEN [format |-> FormatAcfun, err |-> None]
    ELSE [format |-> "", err |-> "unknown format"]

\* ProbeFormat(file) with the file at offset p: the format, the error and the
\* offset the file is left at
\* ProbeFormat after file.Read returned n bytes, classified as c
Probed(c, p, n) == [format |-> c.format, err |-> c.err, pos |-> SeekRestore(p, p + n)]

ProbeRead(file, p, n) == Probed(Classify(SubSeq(file.bytes, p + 1, p + n)), p, n)

\* ProbeFormat(file) with the file at offset p: the format, the error and the
\* offset the file is left at
ProbeFormat(file, p) ==
    IF SeekFails(file) THEN [format |-> "", err |-> "seek", pos |-> p]
    ELSE IF ReadFails(file)
         THEN [format |-> "", err |-> "read", pos |-> SeekRestore(p, p)]
         ELSE ProbeRead(file, p, ReadCount(file, p))

----------------------------------------------------------------------------
(* fmt.Sscanf                                                              *)

DecimalDigits == {"0", "1", "2", "3", "4", "5", "6", "7", "8", "9"}
HexadecimalDigits == DecimalDigits \cup {"a", "b", "c", "d", "e", "f", "A", "B", "C", "D", "E", "F"}
Sign == {"+", "-"}

DigitVal(c) ==
    CASE c \in DecimalDigits -> CHOOSE d \in 0..9 : DigitChar(d) = c
      [] c \in {"a", "A"} -> 10
      [] c \in {"b", "B"} -> 11
      [] c \in {"c", "C"} -> 12
      [] c \in {"d", "D"} -> 13
      [] c \in {"e", "E"} -> 14
      [] c \in {"f", "F"} -> 15

RECURSIVE ParseUint(_, _)
\* strconv.ParseInt of a token of digits of the base
ParseUint(tok, base) ==
    IF tok = << >> THEN 0
    ELSE ParseUint(SubSeq(tok, 1, Len(tok) - 1), base) * base + DigitVal(tok[Len(tok)])

\* the number of leading characters of s that are in chars
Run(s, chars) ==
    CHOOSE k \in 0..Len(s) :
        /\ \A i \in 1..k : s[i] \in chars
        /\ k < Len(s) => s[k + 1] \notin chars

\* ss.SkipSpace
SkipSpace(s) == SubSeq(s, Run(s, {" "}) + 1, Len(s))

ScanFail == [err |-> TRUE, val |-> None, rest |-> << >>]

Signed(s) == s # << >> /\ s[1] \in Sign
Unsigned(s) == IF Signed(s) THEN Tail(s) ELSE s
Negate(s, v) == IF Signed(s) /\ s[1] = "-" THEN 0 - v ELSE v

\* ss.scanNumber and strconv.ParseInt: t is the input after the sign, n the
\* number of digits that follow
ScanDigits(s, t, n, base) ==
    IF s = << >> \/ n = 0 THEN ScanFail
    ELSE [err |-> FALSE, val |-> Negate(s, ParseUint(SubSeq(t, 1, n), base)),
          rest |-> SubSeq(t, n + 1, Len(t))]

ScanSigned(s, t, digits, base) == ScanDigits(s, t, Run(t, digits), base)

\* ss.scanInt: %d (base 10) and %x (base 16)
ScanInt(input, base) ==
    ScanSigned(SkipSpace(input), Unsigned(SkipSpace(input)),
               IF base = 16 THEN HexadecimalDigits ELSE DecimalDigits, base)

\* the first three decimals, in thousandths
Thousandths(w, m) ==
    ParseUint(SubSeq(w, 1, Min(m, 3)) \o [i \in 1..(3 - Min(m, 3)) |-> "0"], 10)

\* strconv.ParseFloat of n digits of t, then m digits of w
ScanDecimals(s, t, n, w, m) ==
    IF s = << >> \/ n + m = 0 THEN ScanFail
    ELSE [err |-> FALSE,
          val |-> Negate(s, ParseUint(SubSeq(t, 1, n), 10) * 1000 + Thousandths(w, m)),
          rest |-> SubSeq(w, m + 1, Len(w))]

\* the decimal point and the fraction: u is the input after the n digits of t
ScanFraction(s, t, n, u) ==
    IF u # << >> /\ u[1] = "."
    THEN ScanDecimals(s, t, n, Tail(u), Run(Tail(u), DecimalDigits))
    ELSE ScanDecimals(s, t, n, u, 0)

ScanWhole(s, t, n) == ScanFraction(s, t, n, SubSeq(t, n + 1, Len(t)))

ScanUnsigned(s, t) == ScanWhole(s, t, Run(t, DecimalDigits))

\* ss.floatToken and ss.convertFloat: %f, for input without exponent, hex
\* prefix, NaN or Inf; the value in thousandths, of at most three decimals
ScanFloat(input) == ScanUnsigned(SkipSpace(input), Unsigned(SkipSpace(input)))

ScanWord(s, n) ==
    IF s = << >> THEN ScanFail
    ELSE [err |-> FALSE, val |-> SubSeq(s, 1, n), rest |-> SubSeq(s, n + 1, Len(s))]

NotSpace(s) == {c \in {s[i] : i \in 1..Len(s)} : c # " "}

\* ss.convertString: %s is the next word, up to white space
ScanToSpace(s) == ScanWord(s, Run(s, NotSpace(s)))

ScanString(input) == ScanToSpace(SkipSpace(input))

ScanOne(verb, input) ==
    CASE verb = "%f" -> ScanFloat(input)
      [] verb = "%s" -> ScanString(input)
      [] verb = "%d" -> ScanInt(input, 10)
      [] verb = "%x" -> ScanInt(input, 16)

Verbs == {"%f", "%s", "%d", "%x"}

RECURSIVE DoScanf(_, _, _)
RECURSIVE Scanned(_, _, _)

\* ss.doScanf after a verb: r is what the verb scanned
Scanned(r, items, vals) ==
    IF r.err THEN [err |-> TRUE, vals |-> vals]
    ELSE DoScanf(r.rest, items, Append(vals, r.val))

\* ss.doScanf: the items of the format are verbs and literal characters
DoScanf(input, items, vals) ==
    IF items = << >> THEN [err |-> FALSE, vals |-> vals]
    ELSE IF Head(items) \in Verbs
         THEN Scanned(ScanOne(Head(items), input), Tail(items), vals)
         ELSE IF input # << >> /\ input[1] = Head(items)
              THEN DoScanf(Tail(input), Tail(items), vals)
              ELSE [err |-> TRUE, vals |-> vals]

Sscanf(str, items) == DoScanf(str, items, << >>)

----------------------------------------------------------------------------
(* parser: the Comment and the three parsers                               *)

Newline == <<"\n">>
SlashN == <<"/", "n">>

\* calculateLength
calculateLength(text) == Len(text)

\* the Comment of a record, text its content with "/n" replaced
CommentOf(timeline, timestamp, no, text, position, color, textSize) ==
    [Timeline |-> timeline, Timestamp |-> timestamp, No |-> no, Text |-> text,
     Position |-> position, Color |-> color, Size |-> textSize,
     Height |-> (Count(text, "\n") + 1) * textSize,
     Width |-> calculateLength(text) * textSize]

Comment(timeline, timestamp, no, content, position, color, textSize) ==
    CommentOf(timeline, timestamp, no, ReplaceAll(content, SlashN, Newline), position,
              color, textSize)

\* mode of a Bilibili or AcFun record to position; -1: the record is skipped
ModePosition(mode) ==
    CASE mode = 1 -> 0
      [] mode = 4 -> 2
      [] mode = 5 -> 1
      [] mode = 6 -> 3
      [] OTHER -> -1

\* float64(size) * fontSize / 25.0, in hundredths
ScaledSize(size, fs) == (size * fs * 100) \div 25

BilibiliFormat == <<"%f", ",", "%s", ",", "%d", ",", "%d", ",", "%d">>

BilibiliMode(mode) ==
    CASE mode = <<"1">> -> 1
      [] mode = <<"4">> -> 4
      [] mode = <<"5">> -> 5
      [] mode = <<"6">> -> 6
      [] OTHER -> 0

\* one pass of the loop of parseBilibili: sc is what Sscanf returned for c.P
BilibiliComment(c, i, sc, fs) ==
    IF sc.err \/ ModePosition(BilibiliMode(sc.vals[2])) = -1 THEN << >>
    ELSE <<Comment(sc.vals[1], sc.vals[5], i, c.Content,
                   ModePosition(BilibiliMode(sc.vals[2])), sc.vals[4],
                   ScaledSize(sc.vals[3], fs))>>

RECURSIVE BilibiliLoop(_, _, _)
\* the loop of parseBilibili over biliXML.Comments from index i (0-based)
BilibiliLoop(recs, i, fs) ==
    IF i >= Len(recs) THEN << >>
    ELSE BilibiliComment(recs[i + 1], i, Sscanf(recs[i + 1].P, BilibiliFormat), fs)
         \o BilibiliLoop(recs, i + 1, fs)

\* one pass of the loop with every Comment numbered 0, not by the loop index
AcfunCommentUnnumbered(c, i, fs) ==
    IF ModePosition(c.Mode) = -1 THEN << >>
    ELSE <<Comment(c.Time, 0, 0, c.Content, ModePosition(c.Mode), c.Color,
                   ScaledSize(c.Size, fs))>>

\* one pass of the loop of parseAcfun
AcfunComment(c, i, fs) ==
    IF ModePosition(c.Mode) = -1 THEN << >>
    ELSE <<Comment(c.Time, 0, i, c.Content, ModePosition(c.Mode), c.Color,
                   ScaledSize(c.Size, fs))>>

RECURSIVE AcfunLoop(_, _, _)
\* the loop of parseAcfun over acComments from index i (0-based)
AcfunLoop(recs, i, fs) ==
    IF i >= Len(recs) THEN << >>
    ELSE AcfunComment(recs[i + 1], i, fs) \o AcfunLoop(recs, i + 1, fs)

White == 16777215

\* the default case of the switch: sc is what Sscanf(cmd, "%x", &color) returned
ColorCommand(st, sc) == IF sc.err THEN st ELSE [st EXCEPT !.color = sc.vals[1]]

\* the switch of parseNiconico on one command: st holds position, color and size
Command(cmd, st, fs) ==
    CASE cmd = <<"u", "e">> -> [st EXCEPT !.position = 1]
      [] cmd = <<"s", "h", "i", "t", "a">> -> [st EXCEPT !.position = 2]
      [] cmd = <<"b", "i", "g">> -> [st EXCEPT !.size = (fs * 150)]
      [] cmd = <<"s", "m", "a", "l", "l">> -> [st EXCEPT !.size = (fs * 50)]
      [] OTHER -> IF Len(cmd) = 6 THEN ColorCommand(st, Sscanf(cmd, <<"%x">>)) ELSE st

RECURSIVE MailLoop(_, _, _)
\* the loop of parseNiconico over the commands of one mail string
MailLoop(commands, st, fs) ==
    IF commands = << >> THEN st
    ELSE MailLoop(Tail(commands), Command(Head(commands), st, fs), fs)

\* the Comment of one record, st the outcome of its commands
NiconicoComment(c, st) ==
    Comment(c.VPos * 10, c.Date, c.No, c.Content, st.position, st.color, st.size)

RECURSIVE NiconicoLoop(_, _)
\* the loop of parseNiconico over nicoXML.Comments
NiconicoLoop(recs, fs) ==
    IF recs = << >> THEN << >>
    ELSE <<NiconicoComment(Head(recs),
                           MailLoop(Split(Head(recs).Mail, " "),
                                    [position |-> 0, color |-> White, size |-> fs * 100],
                                    fs))>>
         \o NiconicoLoop(Tail(recs), fs)

\* xml.NewDecoder(file).Decode and json.NewDecoder(file).Decode: the records of
\* a document that is well formed, has the root the parser expects and is read
\* from its first byte; an error otherwise
Decodes(file, p, root) == p = 0 /\ file.wellformed /\ file.root = root

ParseResult(ok, comments) == [err |-> ~ok, comments |-> IF ok THEN comments ELSE << >>]

parseBilibili(file, p, fs) ==
    ParseResult(Decodes(file, p, "i"), BilibiliLoop(file.recs, 0, fs))

parseNiconico(file, p, fs) ==
    ParseResult(Decodes(file, p, "packet"), NiconicoLoop(file.recs, fs))

parseAcfun(file, p, fs) ==
    ParseResult(Decodes(file, p, "array"), AcfunLoop(file.recs, 0, fs))

ParseComments(file, p, fmt, fs) ==
    CASE fmt = FormatBilibili -> parseBilibili(file, p, fs)
      [] fmt = FormatNiconico -> parseNiconico(file, p, fs)
      [] fmt = FormatAcfun -> parseAcfun(file, p, fs)
      [] OTHER -> ParseResult(FALSE, << >>)

----------------------------------------------------------------------------
(* ass.Generator                                                           *)

\* -ds, the display duration, in thousandths of a second
DurationStart == 5000

RECURSIVE SortedOrders(_, _)
\* the orders of the comments at the indices in left that ascend by Timeline
SortedOrders(comments, left) ==
    IF left = {} THEN {<< >>}
    ELSE LET firsts == {i \in left : \A j \in left : comments[i].Timeline <= comments[j].Timeline}
         IN  UNION {{<<comments[i]>> \o r : r \in SortedOrders(comments, left \ {i})} : i \in firsts}

\* sort.Slice with less = (Timeline <): sorted, equal elements in any order
\* ("The sort is not guaranteed to be stable"); which order is the library's
\* choice: it sorts up to 12 elements by insertion and partitions a longer
\* slice around a pivot, which it puts ahead of the elements equal to it
SortSlice(comments) == SortedOrders(comments, 1..Len(comments))

\* the switch of generateEvents with a style for ReverseScroll as well
PositionStyleReverse(position) ==
    CASE position = 0 -> "R2L"
      [] position = 1 -> "Top"
      [] position = 2 -> "Bottom"
      [] position = 3 -> "R2L"
      [] OTHER -> None

\* position of a Comment to the style of its Event; None: no Event
PositionStyle(position) ==
    CASE position = 0 -> "R2L"
      [] position = 1 -> "Top"
      [] position = 2 -> "Bottom"
      [] OTHER -> None

\* an Event: Start in thousandths like Timeline, End the float64 sum
Event(comment, style, duration) ==
    [Start |-> comment.Timeline,
     End |-> FAdd(ToFloat(comment.Timeline), ToFloat(duration)),
     Style |-> style, Text |-> comment.Text,
     MarginL |-> 0, MarginR |-> 0, MarginV |-> 0]

\* one pass of the loop of generateEvents
EventOf(comment, style, duration) ==
    IF style = None THEN << >> ELSE <<Event(comment, style, duration)>>

RECURSIVE generateEvents(_, _)
generateEvents(comments, duration) ==
    IF comments = << >> THEN << >>
    ELSE EventOf(Head(comments), PositionStyle(Head(comments).Position), duration)
         \o generateEvents(Tail(comments), duration)

\* the header block: the three styles
Header == [Styles |-> <<"R2L", "Top", "Bottom">>]

\* the Dialogue line of an Event
Dialogue(event) ==
    [Start |-> formatTime(ToFloat(event.Start)), End |-> formatTime(event.End),
     Style |-> event.Style, Text |-> event.Text]

\* file.WriteString(s) on the output: what the file holds afterwards; on a
\* full device the call fails and the file is left as it was
WriteString(written, s, env) == IF env = "diskFull" THEN written ELSE Append(written, s)

\* writeHeader
writeHeader(written, env) == WriteString(written, Header, env)

RECURSIVE writeEvents(_, _, _)
writeEvents(written, evs, env) ==
    IF evs = << >> THEN written
    ELSE writeEvents(WriteString(written, Dialogue(Head(evs)), env), Tail(evs), env)

\* GenerateASS from os.Create on: evs are the events of the sorted comments
GenerateFile(sorted, evs, env) ==
    IF env = "createFails"
    THEN [err |-> TRUE, sorted |-> sorted, events |-> << >>, written |-> << >>]
    ELSE [err |-> FALSE, sorted |-> sorted, events |-> evs,
          written |-> writeEvents(writeHeader(<< >>, env), evs, env)]

\* GenerateASS once the comments are sorted
GenerateSorted(sorted, env) ==
    GenerateFile(sorted, generateEvents(sorted, DurationStart), env)

\* the outcomes of GenerateASS(comments, output)
GenerateASS(comments, env) == {GenerateSorted(s, env) : s \in SortSlice(comments)}

----------------------------------------------------------------------------
(* inputs                                                                  *)

MaxFiles == 2
MaxRecs == 2
MaxTokens == 3
MaxChunks == 3
MaxPos == 2
MaxComments == 3
MaxCentis == 120
PadLen == 93

RECURSIVE Join(_, _)
\* strings.Join(parts, sep)
Join(parts, sep) ==
    IF parts = << >> THEN << >>
    ELSE IF Len(parts) = 1 THEN Head(parts)
    ELSE Head(parts) \o sep \o Join(Tail(parts), sep)

\* the sequences over S of length at most n
SeqUpTo(S, n) == UNION {[1..k -> S] : k \in 0..n}

FontSizes == {20, 48}
OutEnvs == {"ok", "createFails", "diskFull"}

Hi == <<"h", "i">>
TwoLines == <<"a", "/", "n", "b">>

\* a file: what it is, its bytes from the start, and what a decoder finds in it
File(kind, bytes, root, wellformed, recs) ==
    [kind |-> kind, bytes |-> bytes, root |-> root, wellformed |-> wellformed, recs |-> recs]

\* <d p="time,mode,25,255,7,0">content</d>
BiliRec(time, mode, content) ==
    [P |-> Join(<<time, mode, <<"2", "5">>, <<"2", "5", "5">>, <<"7">>, <<"0">>>>, <<",">>),
     Content |-> content]

BiliRecs ==
    {BiliRec(<<"1", ".", "5">>, <<"1">>, Hi), BiliRec(<<"3">>, <<"5">>, TwoLines),
     BiliRec(<<"3">>, <<"9">>, Hi), BiliRec(<<"0", ".", "2", "9">>, <<"4">>, Hi),
     BiliRec(<<"1", ".", "5">>, <<"6">>, Hi),
     [P |-> <<"a", "b", "c">>, Content |-> Hi],
     [P |-> <<"1", ".", "5", ",", "1">>, Content |-> Hi],
     [P |-> <<"1", ".", "5", ",", "1", " ", ",", "2", "5", ",", "2", "5", "5", ",", "7">>,
      Content |-> Hi]}

\* <chat vpos=".." no=".." date=".." mail="..">content</chat>
NicoRec(vpos, no, mail, content) ==
    [VPos |-> vpos, No |-> no, Date |-> 7, Mail |-> mail, Content |-> content]

Tokens ==
    {<<"u", "e">>, <<"s", "h", "i", "t", "a">>, <<"b", "i", "g">>, <<"s", "m", "a", "l", "l">>,
     <<"1", "8", "4">>, <<"f", "f", "0", "0", "0", "0">>, <<"0", "0", "0", "0", "F", "f">>,
     <<"d", "e", "f", "o", "n", "t">>, <<"y", "e", "l", "l", "o", "w">>, << >>}

Mails == {Join(ts, <<" ">>) : ts \in SeqUpTo(Tokens, MaxTokens)}

\* {"time": .., "mode": .., "size": .., "color": .., "content": ".."}
AcfunRec(time, mode, size, content) ==
    [Time |-> time, Mode |-> mode, Size |-> size, Color |-> 255, Content |-> content]

XmlHead == XmlDecl \o <<"?", ">">>
TagPacket == <<"<", "p", "a", "c", "k", "e", "t", ">">>

BiliFile ==
    File("regular", XmlHead \o TagI, "i", TRUE,
         <<BiliRec(<<"1", ".", "5">>, <<"1">>, Hi), BiliRec(<<"3">>, <<"5">>, Hi),
           BiliRec(<<"3">>, <<"9">>, Hi)>>)
NicoFile ==
    File("regular", XmlHead \o TagPacket \o TagChat, "packet", TRUE,
         <<NicoRec(100, 1, <<"u", "e", " ", "b", "i", "g">>, Hi),
           NicoRec(29, 2, <<"1", "8", "4">>, TwoLines)>>)
AcfunFileA ==
    File("regular", Bracket \o <<"{">>, "array", TRUE,
         <<AcfunRec(5000, 1, 25, Hi), AcfunRec(1000, 5, 50, Hi)>>)
AcfunFileB ==
    File("regular", Bracket \o <<"{">>, "array", TRUE,
         <<AcfunRec(3000, 4, 25, Hi), AcfunRec(1000, 1, 25, TwoLines),
           AcfunRec(3000, 6, 25, Hi), AcfunRec(3000, 7, 25, Hi)>>)

FileSamples ==
    {BiliFile, NicoFile, AcfunFileA, AcfunFileB,
     File("missing", << >>, None, FALSE, << >>),
     File("dir", << >>, None, FALSE, << >>),
     File("pipe", NicoFile.bytes, "packet", TRUE, NicoFile.recs),
     File("regular", Hi, None, FALSE, << >>),
     File("regular", << >>, None, FALSE, << >>),
     File("regular", XmlHead \o TagI, "i", FALSE, << >>),
     File("regular", Bracket \o <<"{">>, "array", FALSE, << >>),
     File("regular", XmlHead \o TagPacket \o TagChat \o TagI, "packet", TRUE, NicoFile.recs)}

----------------------------------------------------------------------------
(* main                                                                    *)

\* the variables of a function called on its own, while main runs
NoCall == fn = "main" /\ arg = None /\ ret = None

\* the variables of main, while a function is called on its own
NoMain ==
    /\ files = << >> /\ fontSize = 48 /\ outEnv = "ok" /\ idx = 1 /\ pos = 0
    /\ format = "" /\ allComments = << >> /\ stderr = << >> /\ events = << >>
    /\ outFile = << >> /\ stdout = FALSE /\ exitCode = -1 /\ genCalls = 0

Init ==
    /\ files \in SeqUpTo(FileSamples, MaxFiles) \ {<< >>}
    /\ fontSize \in FontSizes
    /\ outEnv \in OutEnvs
    /\ idx = 1
    /\ pc = "open"
    /\ pos = 0
    /\ format = ""
    /\ allComments = << >>
    /\ stderr = << >>
    /\ events = << >>
    /\ outFile = << >>
    /\ stdout = FALSE
    /\ exitCode = -1
    /\ genCalls = 0
    /\ NoCall

\* the loop goes on to the file after the i-th of n, or ends
NextFile(i, n) == [idx |-> i + 1, pc |-> IF i + 1 > n THEN "generate" ELSE "open"]

\* `break` in the place of `continue`: the loop ends at the first failure
Break(i, n) == [idx |-> n + 1, pc |-> "generate"]

\* `continue` after a failure at the i-th of n files
Continue(i, n) == NextFile(i, n)

\* allComments = append(allComments, comments...)
AppendComments(all, comments) == all \o comments

\* file, err := os.Open(inputFile)
OpenFile ==
    /\ pc = "open"
    /\ IF files[idx].kind = "missing"
       THEN /\ stderr' = Append(stderr, <<"Error opening", idx>>)
            /\ idx' = Continue(idx, Len(files)).idx
            /\ pc' = Continue(idx, Len(files)).pc
            /\ pos' = pos
       ELSE /\ pc' = "probe"
            /\ pos' = 0
            /\ UNCHANGED <<stderr, idx>>
    /\ UNCHANGED <<files, fontSize, outEnv, format, allComments, events, outFile,
                   stdout, exitCode, genCalls, fn, arg, ret>>

\* main after ProbeFormat returned r
AfterProbe(r) ==
    /\ pos' = r.pos
    /\ IF r.err # None
       THEN /\ stderr' = Append(stderr, <<"Error detecting format of", idx>>)
            /\ idx' = Continue(idx, Len(files)).idx
            /\ pc' = Continue(idx, Len(files)).pc
            /\ format' = format
       ELSE /\ format' = r.format
            /\ pc' = "parse"
            /\ UNCHANGED <<stderr, idx>>

\* format, err := parser.ProbeFormat(file)
Probe ==
    /\ pc = "probe"
    /\ AfterProbe(ProbeFormat(files[idx], pos))
    /\ UNCHANGED <<files, fontSize, outEnv, allComments, events, outFile, stdout,
                   exitCode, genCalls, fn, arg, ret>>

\* main after ParseComments returned r
Parsed(r) ==
    IF r.err
    THEN /\ stderr' = Append(stderr, <<"Error parsing", idx>>)
         /\ idx' = Continue(idx, Len(files)).idx
         /\ pc' = Continue(idx, Len(files)).pc
         /\ allComments' = allComments
    ELSE /\ allComments' = AppendComments(allComments, r.comments)
         /\ idx' = NextFile(idx, Len(files)).idx
         /\ pc' = NextFile(idx, Len(files)).pc
         /\ stderr' = stderr

\* comments, err := parser.ParseComments(file, format, cfg.FontSize), and the append
Parse ==
    /\ pc = "parse"
    /\ Parsed(ParseComments(files[idx], pos, format, fontSize))
    /\ pos' = Len(files[idx].bytes)
    /\ UNCHANGED <<files, fontSize, outEnv, format, events, outFile, stdout,
                   exitCode, genCalls, fn, arg, ret>>

\* generator.GenerateASS(allComments, cfg.OutputFile) and the end of main
Generate ==
    /\ pc = "generate"
    /\ \E g \in GenerateASS(allComments, outEnv) :
          /\ allComments' = g.sorted
          /\ events' = g.events
          /\ outFile' = g.written
          /\ IF g.err
             THEN /\ stderr' = Append(stderr, <<"Error generating ASS file", 0>>)
                  /\ exitCode' = 1
                  /\ stdout' = FALSE
             ELSE /\ stdout' = TRUE
                  /\ exitCode' = 0
                  /\ stderr' = stderr
    /\ genCalls' = genCalls + 1
    /\ pc' = "exit"
    /\ UNCHANGED <<files, fontSize, outEnv, idx, pos, format, fn, arg, ret>>

Next == OpenFile \/ Probe \/ Parse \/ Generate

Spec == Init /\ [][Next]_vars

----------------------------------------------------------------------------
(* the functions, each called on its own                                   *)

\* a call of the function fn names, and its return
Call(result) ==
    /\ pc = "call"
    /\ ret' = result
    /\ pc' = "return"
    /\ UNCHANGED <<files, fontSize, outEnv, idx, pos, format, allComments, stderr,
                   events, outFile, stdout, exitCode, genCalls, fn, arg>>

TimeSamples == {10 * k : k \in 0..MaxCentis} \cup {59999, 3661500, 360000000}

InitTime == fn = "formatTime" /\ pc = "call" /\ arg \in TimeSamples /\ ret = None /\ NoMain

CallFormatTime == fn = "formatTime" /\ Call(formatTime(ToFloat(arg)))

NextTime == CallFormatTime

SpecTime == InitTime /\ [][NextTime]_vars

Padding == [i \in 1..PadLen |-> " "]
Chunks == {XmlDecl, TagI, TagChat, Bracket, <<"{">>, <<"<">>, Padding}

ProbeFiles ==
    {File("regular", Concat(cs), None, FALSE, << >>) : cs \in SeqUpTo(Chunks, MaxChunks)}
    \cup {File("pipe", XmlDecl \o TagI, None, FALSE, << >>),
          File("pipe", << >>, None, FALSE, << >>),
          File("dir", << >>, None, FALSE, << >>)}

InitProbe ==
    /\ fn = "ProbeFormat"
    /\ pc = "call"
    /\ arg \in [file : ProbeFiles, pos : 0..MaxPos]
    /\ ret = None
    /\ NoMain

CallProbeFormat == fn = "ProbeFormat" /\ Call(ProbeFormat(arg.file, arg.pos))

NextProbe == CallProbeFormat

SpecProbe == InitProbe /\ [][NextProbe]_vars

InitBili ==
    /\ fn = "parseBilibili"
    /\ pc = "call"
    /\ arg \in [recs : SeqUpTo(BiliRecs, MaxRecs), wellformed : BOOLEAN, fs : FontSizes]
    /\ ret = None
    /\ NoMain

CallParseBilibili ==
    /\ fn = "parseBilibili"
    /\ Call(parseBilibili(File("regular", XmlHead \o TagI, "i", arg.wellformed, arg.recs),
                          0, arg.fs))

NextBili == CallParseBilibili

SpecBili == InitBili /\ [][NextBili]_vars

InitNico ==
    /\ fn = "parseNiconico"
    /\ pc = "call"
    /\ arg \in [mail : Mails, fs : FontSizes]
    /\ ret = None
    /\ NoMain

\* a document of two records: the mail string under test, then a mail "184"
CallParseNiconico ==
    /\ fn = "parseNiconico"
    /\ Call(parseNiconico(File("regular", XmlHead \o TagPacket \o TagChat, "packet", TRUE,
                               <<NicoRec(100, 1, arg.mail, Hi),
                                 NicoRec(29, 2, <<"1", "8", "4">>, TwoLines)>>),
                          0, arg.fs))

NextNico == CallParseNiconico

SpecNico == InitNico /\ [][NextNico]_vars

\* the modes of AcFun records: the four supported ones, an unsupported one, and
\* 0, the value of a record without a "mode" key
AcfunModes == {0, 1, 4, 5, 6, 7}

\* the sizes of AcFun records: 0 is also the value of a record without a "size" key
RawSizes == {0, 25, 50}

AcfunRecs == {AcfunRec(1000, m, s, Hi) : m \in AcfunModes, s \in RawSizes}

InitAcfun ==
    /\ fn = "parseAcfun"
    /\ pc = "call"
    /\ arg \in [recs : SeqUpTo(AcfunRecs, MaxRecs), wellformed : BOOLEAN, fs : FontSizes]
    /\ ret = None
    /\ NoMain

CallParseAcfun ==
    /\ fn = "parseAcfun"
    /\ Call(parseAcfun(File("regular", Bracket \o <<"{">>, "array", arg.wellformed, arg.recs),
                       0, arg.fs))

NextAcfun == CallParseAcfun

SpecAcfun == InitAcfun /\ [][NextAcfun]_vars

\* a call of any one of the three parsers
InitParsers == InitBili \/ InitNico \/ InitAcfun

NextParsers == CallParseBilibili \/ CallParseNiconico \/ CallParseAcfun

SpecParsers == InitParsers /\ [][NextParsers]_vars

\* Comments of every position at one time, and one Comment at a later time
CommentSamples ==
    {CommentOf(1000, 0, 0, Hi, p, White, 4800) : p \in {0, 1, 2, 3, 4}}
        \cup {CommentOf(3000, 0, 0, Hi, 0, White, 4800)}

\* Comments to sort: two of one time, told apart by their position, and a later one
SortSamples == {c \in CommentSamples : c.Position \in {0, 1} \/ c.Timeline = 3000}

InitGen ==
    /\ \/ fn = "GenerateASS" /\ arg \in SeqUpTo(SortSamples, MaxComments)
       \/ fn = "generateEvents" /\ arg \in SeqUpTo(CommentSamples, MaxComments)
    /\ pc = "call"
    /\ ret = None
    /\ NoMain

CallGenerateASS == fn = "GenerateASS" /\ \E g \in GenerateASS(arg, "ok") : Call(g)

CallGenerateEvents == fn = "generateEvents" /\ Call(generateEvents(arg, DurationStart))

NextGen == CallGenerateASS \/ CallGenerateEvents

SpecGen == InitGen /\ [][NextGen]_vars

----------------------------------------------------------------------------
(* C1: ProbeFormat classifies the bytes read                               *)

\* the at most ProbeLen bytes ProbeFormat reads from the offset arg.pos
ProbePrefix ==
    SubSeq(arg.file.bytes, arg.pos + 1, Min(Len(arg.file.bytes), arg.pos + ProbeLen))

IsXml(c) == HasPrefix(c, XmlDecl)

Classified(fmt) == ret.format = fmt /\ ret.err = None
Unrecognized == ret.format = "" /\ ret.err # None

\* C1 as stated: a prefix that starts with <?xml and contains <i> is Bilibili;
\* one that starts with <?xml and contains <chat> is Niconico; one that starts
\* with [ is AcFun; every other prefix is an error with no format tag.
ProbeClassifiesAsStated ==
    (fn = "ProbeFormat" /\ pc = "return" /\ arg.file.kind = "regular") =>
        /\ (IsXml(ProbePrefix) /\ Contains(ProbePrefix, TagI)) => Classified(FormatBilibili)
        /\ (IsXml(ProbePrefix) /\ Contains(ProbePrefix, TagChat)) => Classified(FormatNiconico)
        /\ HasPrefix(ProbePrefix, Bracket) => Classified(FormatAcfun)
        /\ (/\ ~(IsXml(ProbePrefix) /\ Contains(ProbePrefix, TagI))
            /\ ~(IsXml(ProbePrefix) /\ Contains(ProbePrefix, TagChat))
            /\ ~HasPrefix(ProbePrefix, Bracket)) => Unrecognized

\* C1, amended: the same, except that a prefix that starts with <?xml is
\* Niconico when it contains <chat> and does not contain <i>; with both
\* markers in the prefix it is Bilibili.
ProbeClassifies ==
    (fn = "ProbeFormat" /\ pc = "return" /\ arg.file.kind = "regular") =>
        /\ (IsXml(ProbePrefix) /\ Contains(ProbePrefix, TagI)) => Classified(FormatBilibili)
        /\ (/\ IsXml(ProbePrefix)
            /\ Contains(ProbePrefix, TagChat)
            /\ ~Contains(ProbePrefix, TagI)) => Classified(FormatNiconico)
        /\ HasPrefix(ProbePrefix, Bracket) => Classified(FormatAcfun)
        /\ (/\ ~(IsXml(ProbePrefix) /\ Contains(ProbePrefix, TagI))
            /\ ~(IsXml(ProbePrefix) /\ Contains(ProbePrefix, TagChat))
            /\ ~HasPrefix(ProbePrefix, Bracket)) => Unrecognized

\* a prefix with both markers has been classified
ProbeClassifiesWitness ==
    /\ fn = "ProbeFormat" /\ pc = "return" /\ arg.file.kind = "regular"
    /\ Contains(ProbePrefix, TagChat)
    /\ Contains(ProbePrefix, TagI)
    /\ Classified(FormatBilibili)

----------------------------------------------------------------------------
(* C2: ProbeFormat leaves the read offset where it found it                *)

\* C2: on every return path of ProbeFormat (format recognized, not recognized,
\* read error, seek error) the offset of the file after the call is the offset
\* before it, so ParseComments decodes from the offset the probe started at.
ProbeRestoresOffset == [][pc = "probe" => pos' = pos]_vars

\* ProbeFormat has read bytes of a file and main is about to parse it
ProbeRestoresOffsetWitness ==
    /\ fn = "main" /\ pc = "parse"
    /\ files[idx].bytes # << >>
    /\ pos = 0

----------------------------------------------------------------------------
(* C3: parseBilibili emits a Comment for every supported record            *)

IsInteger(field) == field # << >> /\ \A i \in 1..Len(field) : field[i] \in DecimalDigits

IsDecimal(field) ==
    /\ \E i \in 1..Len(field) : field[i] \in DecimalDigits
    /\ \A i \in 1..Len(field) : field[i] \in DecimalDigits \cup {"."}
    /\ Count(field, ".") <= 1

\* the value of a decimal field of at most three decimals, in thousandths
DecimalValue(field) ==
    IF Count(field, ".") = 0 THEN ParseUint(field, 10) * 1000
    ELSE ParseUint(Split(field, ".")[1], 10) * 1000
         + ParseUint(Split(field, ".")[2]
                     \o [i \in 1..(3 - Len(Split(field, ".")[2])) |-> "0"], 10)

\* the attribute string has the form time,mode,size,color,timestamp,...
AttrFields(fields) ==
    /\ Len(fields) >= 5
    /\ IsDecimal(fields[1])
    /\ IsInteger(fields[3]) /\ IsInteger(fields[4]) /\ IsInteger(fields[5])

SupportedModes == {<<"1">>, <<"4">>, <<"5">>, <<"6">>}

ClaimedPosition(mode) ==
    CASE mode = <<"1">> -> 0
      [] mode = <<"4">> -> 2
      [] mode = <<"5">> -> 1
      [] mode = <<"6">> -> 3

\* what the claim says a record contributes: time, position, color, timestamp
ClaimedOfFields(fields) ==
    IF AttrFields(fields) /\ fields[2] \in SupportedModes
    THEN <<[Timeline |-> DecimalValue(fields[1]), Position |-> ClaimedPosition(fields[2]),
            Color |-> ParseUint(fields[4], 10), Timestamp |-> ParseUint(fields[5], 10)]>>
    ELSE << >>

RECURSIVE ClaimedBilibili(_)
ClaimedBilibili(recs) ==
    IF recs = << >> THEN << >>
    ELSE ClaimedOfFields(Split(Head(recs).P, ",")) \o ClaimedBilibili(Tail(recs))

Brief(c) ==
    [Timeline |-> c.Timeline, Position |-> c.Position, Color |-> c.Color,
     Timestamp |-> c.Timestamp]

Briefs(comments) == [k \in 1..Len(comments) |-> Brief(comments[k])]

\* C3: for a document that decodes, parseBilibili emits exactly one Comment
\* for each record whose attribute string has the form
\* time,mode,size,color,timestamp,... and whose mode is 1, 4, 5 or 6, with the
\* position of that mode and the record's time, color and timestamp; every
\* other record is skipped and the rest are still parsed.
BilibiliEmitsSupported ==
    (fn = "parseBilibili" /\ pc = "return" /\ arg.wellformed) =>
        /\ ~ret.err
        /\ Briefs(ret.comments) = ClaimedBilibili(arg.recs)

----------------------------------------------------------------------------
(* C4: one Bilibili file, end to end                                       *)

\* the Dialogue lines of the output file, after its header
DialogueLines == SubSeq(outFile, 2, Len(outFile))

Styles(lines) == [k \in 1..Len(lines) |-> lines[k].Style]

ClaimedStyle(c) ==
    CASE c.Position = 0 -> "R2L"
      [] c.Position = 1 -> "Top"
      [] c.Position = 2 -> "Bottom"

HasStyle(c) == c.Position \in {0, 1, 2}

\* a finished run over one Bilibili file that opens, probes and decodes
BilibiliRun ==
    /\ fn = "main" /\ pc = "exit" /\ outEnv = "ok"
    /\ Len(files) = 1
    /\ files[1].kind = "regular" /\ files[1].root = "i" /\ files[1].wellformed
    /\ IsXml(files[1].bytes) /\ Contains(files[1].bytes, TagI)

\* C4: a run over one Bilibili file writes exactly one dialogue line for each
\* record with a well-formed attribute string and mode 1, 5 or 4, with style
\* R2L, Top or Bottom, in ascending time order, and none for another mode; the
\* file with modes 1, 5 and 9 yields two lines, R2L then Top.
BilibiliEndToEnd ==
    BilibiliRun =>
        /\ Styles(DialogueLines) \in
              {[k \in 1..Len(o) |-> ClaimedStyle(o[k])] :
                  o \in SortSlice(SelectSeq(ClaimedBilibili(files[1].recs), HasStyle))}
        /\ files[1] = BiliFile => Styles(DialogueLines) = <<"R2L", "Top">>

----------------------------------------------------------------------------
(* C5: the commands of a Niconico mail string                              *)

\* the last index of a token of the set, 0 if there is none
LastOf(tokens, S) ==
    IF \E i \in 1..Len(tokens) : tokens[i] \in S
    THEN CHOOSE i \in 1..Len(tokens) :
            tokens[i] \in S /\ \A j \in (i + 1)..Len(tokens) : tokens[j] \notin S
    ELSE 0

Ue == <<"u", "e">>
Shita == <<"s", "h", "i", "t", "a">>
Big == <<"b", "i", "g">>
Small == <<"s", "m", "a", "l", "l">>

\* exactly six characters that parse as a hexadecimal integer
IsHexColor(tok) == Len(tok) = 6 /\ \A i \in 1..6 : tok[i] \in HexadecimalDigits

ClaimedPositionOf(tokens, last) ==
    IF last = 0 THEN 0 ELSE IF tokens[last] = Ue THEN 1 ELSE 2

ClaimedSizeOf(tokens, last, fs) ==
    IF last = 0 THEN fs * 100 ELSE IF tokens[last] = Big THEN fs * 150 ELSE fs * 50

ClaimedColorOf(tokens, last) ==
    IF last = 0 THEN White ELSE ParseUint(tokens[last], 16)

ClaimedStyling(tokens, fs) ==
    [Position |-> ClaimedPositionOf(tokens, LastOf(tokens, {Ue, Shita})),
     Size |-> ClaimedSizeOf(tokens, LastOf(tokens, {Big, Small}), fs),
     Color |-> ClaimedColorOf(tokens, LastOf(tokens, {t \in Tokens : IsHexColor(t)}))]

Styling(c) == [Position |-> c.Position, Size |-> c.Size, Color |-> c.Color]

\* C5: parseNiconico applies the space-separated tokens of the mail string
\* left to right, the last token winning per attribute: position of the last
\* ue or shita, else Scroll; size 1.5 or 0.5 times the base for the last big
\* or small, else the base; color of the last token of exactly 6 characters
\* that parses as a hexadecimal integer, else white; every record is emitted.
NiconicoLastTokenWins ==
    (fn = "parseNiconico" /\ pc = "return") =>
        /\ ~ret.err
        /\ Len(ret.comments) = 2
        /\ Styling(ret.comments[1]) = ClaimedStyling(Split(arg.mail, " "), arg.fs)
        /\ Styling(ret.comments[2]) = ClaimedStyling(<<<<"1", "8", "4">>>>, arg.fs)

----------------------------------------------------------------------------
(* C6: the sort of GenerateASS                                             *)

Orderings(n) == {p \in [1..n -> 1..n] : \A i, j \in 1..n : p[i] = p[j] => i = j}

\* p orders the comments by Timeline, equal ones by their place in the input
IsStable(p, comments) ==
    \A i, j \in 1..Len(comments) :
        i < j => \/ comments[p[i]].Timeline < comments[p[j]].Timeline
                 \/ /\ comments[p[i]].Timeline = comments[p[j]].Timeline
                    /\ p[i] < p[j]

StableOrder(comments) ==
    LET p == CHOOSE q \in Orderings(Len(comments)) : IsStable(q, comments)
    IN  [k \in 1..Len(comments) |-> comments[p[k]]]

\* C6: GenerateASS orders the merged Comments by timeline ascending with a
\* stable sort: the events ascend by time, and comments of equal timeline
\* keep the relative order they had in the input.
SortIsStable ==
    (fn = "GenerateASS" /\ pc = "return") =>
        /\ \A i, j \in 1..Len(ret.events) : i < j => ret.events[i].Start <= ret.events[j].Start
        /\ ret.events = generateEvents(StableOrder(arg), DurationStart)

----------------------------------------------------------------------------
(* C7: generateEvents                                                      *)

\* C7: generateEvents produces, in input order, exactly one Event for each
\* Comment of position 0, 1 or 2, with style R2L, Top or Bottom, start the
\* comment's timeline, end the timeline plus the fixed duration, the comment's
\* text and zero margins; a Comment of any other position produces no Event.
EventsPerPosition ==
    (fn = "generateEvents" /\ pc = "return") =>
        /\ Len(ret) = Len(SelectSeq(arg, HasStyle))
        /\ \A k \in 1..Len(ret) :
              ret[k] = [Start |-> SelectSeq(arg, HasStyle)[k].Timeline,
                        End |-> FAdd(ToFloat(SelectSeq(arg, HasStyle)[k].Timeline),
                                     ToFloat(DurationStart)),
                        Style |-> ClaimedStyle(SelectSeq(arg, HasStyle)[k]),
                        Text |-> SelectSeq(arg, HasStyle)[k].Text,
                        MarginL |-> 0, MarginR |-> 0, MarginV |-> 0]

\* generateEvents has returned events for some comments and dropped a
\* ReverseScroll comment
EventsPerPositionWitness ==
    /\ fn = "generateEvents" /\ pc = "return"
    /\ \E k \in 1..Len(arg) : arg[k].Position = 3
    /\ Len(ret) = 2

----------------------------------------------------------------------------
(* C8: formatTime                                                          *)

\* C8: formatTime renders a time of arg thousandths of a second as H:MM:SS.cc,
\* H the whole hours unpadded, MM and SS the minutes and seconds in two
\* digits, cc the centiseconds of the fractional second, truncated.
FormatTimeTruncates ==
    (fn = "formatTime" /\ pc = "return") =>
        ret = TimeCode(arg \div 3600000, (arg \div 60000) % 60, (arg \div 1000) % 60,
                       (arg % 1000) \div 10)

----------------------------------------------------------------------------
(* C9: the loop of main over the input files                               *)

\* the Comments of a file that parses after a probe that recognizes it
ParsedAs(f, probe) ==
    IF probe.err # None THEN << >>
    ELSE ParseComments(f, 0, probe.format, fontSize).comments

\* what a file adds to allComments: nothing unless open, probe and parse succeed
Contribution(f) == IF f.kind = "missing" THEN << >> ELSE ParsedAs(f, ProbeFormat(f, 0))

Merged(k) == Concat([i \in 1..k |-> Contribution(files[i])])

\* C9: main takes the files one at a time in argument order; a file that fails
\* to open, probe or parse adds no Comment and the later files are still
\* processed; when the loop ends allComments is the concatenation, in file
\* order, of the Comments of the files that succeeded; GenerateASS runs once,
\* after all files.
BatchNeverAborts ==
    fn = "main" =>
        /\ pc \in {"open", "probe", "parse"} =>
              /\ idx <= Len(files)
              /\ allComments = Merged(idx - 1)
              /\ genCalls = 0
        /\ pc = "generate" =>
              /\ idx = Len(files) + 1
              /\ allComments = Merged(Len(files))
              /\ genCalls = 0
        /\ pc = "exit" =>
              /\ idx = Len(files) + 1
              /\ allComments \in SortSlice(Merged(Len(files)))
              /\ genCalls = 1

\* the first file failed, a later one added Comments, and GenerateASS has run
BatchNeverAbortsWitness ==
    /\ fn = "main" /\ pc = "exit"
    /\ Contribution(files[1]) = << >>
    /\ stderr # << >>
    /\ allComments # << >>

----------------------------------------------------------------------------
(* C10: a failed write of the output                                       *)

\* C10: if creating the output file, writing the header or writing a dialogue
\* line fails, GenerateASS returns an error, main reports it and the process
\* stops with a nonzero status without printing the success message.
WriteFailureIsFatal ==
    (fn = "main" /\ pc = "exit" /\ outEnv \in {"createFails", "diskFull"}) =>
        /\ exitCode = 1
        /\ ~stdout
        /\ \E k \in 1..Len(stderr) : stderr[k][1] = "Error generating ASS file"

----------------------------------------------------------------------------
(* C11: parseAcfun                                                         *)

AcfunSupported == {1, 4, 5, 6}

\* the position the claim gives a supported mode
ClaimedAcfunPosition(mode) ==
    CASE mode = 1 -> 0
      [] mode = 4 -> 2
      [] mode = 5 -> 1
      [] mode = 6 -> 3

RECURSIVE SupportedFrom(_, _)
\* the indices (0-based, from i on) of the records with a supported mode, in order
SupportedFrom(recs, i) ==
    IF i >= Len(recs) THEN << >>
    ELSE (IF recs[i + 1].Mode \in AcfunSupported THEN <<i>> ELSE << >>)
         \o SupportedFrom(recs, i + 1)

\* the k-th Comment is the one the claim gives the record at index i
ClaimedAcfun(comment, rec, i) ==
    /\ comment.Timestamp = 0
    /\ comment.No = i
    /\ comment.Position = ClaimedAcfunPosition(rec.Mode)
    /\ comment.Timeline = rec.Time
    /\ comment.Color = rec.Color
    /\ comment.Text = rec.Content

\* C11: parseAcfun, for a document that decodes, emits Comments only for the
\* records of mode 1, 4, 5 or 6, in source order, with position 0, 2, 1 or 3;
\* each has timestamp 0 and as sequence number the index of its record in the
\* source array, skipped records counted, so the numbers increase strictly
\* and there are as many Comments as records of a supported mode.
AcfunNumbersBySource ==
    (fn = "parseAcfun" /\ pc = "return" /\ ~ret.err) =>
        /\ Len(ret.comments) = Len(SupportedFrom(arg.recs, 0))
        /\ Len(ret.comments) = Cardinality({i \in 1..Len(arg.recs) :
                                               arg.recs[i].Mode \in AcfunSupported})
        /\ \A k \in 1..Len(ret.comments) :
              ClaimedAcfun(ret.comments[k], arg.recs[SupportedFrom(arg.recs, 0)[k] + 1],
                           SupportedFrom(arg.recs, 0)[k])
        /\ \A j, k \in 1..Len(ret.comments) :
              j < k => ret.comments[j].No < ret.comments[k].No

\* parseAcfun has skipped a record and emitted the one after it, whose
\* sequence number is not its place among the emitted Comments
AcfunNumbersBySourceWitness ==
    /\ fn = "parseAcfun" /\ pc = "return" /\ ~ret.err
    /\ Len(arg.recs) = 2
    /\ arg.recs[1].Mode \notin AcfunSupported
    /\ Len(ret.comments) = 1
    /\ ret.comments[1].No = 1

----------------------------------------------------------------------------
(* C12: the size of a Comment                                              *)

\* rawSize * baseFontSize / 25, in hundredths
ClaimedScaled(raw, fs) == (raw * fs * 100) \div 25

\* the size the claim gives a Comment of the parser fn: the AcFun record of a
\* Comment is the one at the index No; the Bilibili records all have size 25
ClaimedSizes(comment) ==
    CASE fn = "parseBilibili" -> {ClaimedScaled(25, arg.fs)}
      [] fn = "parseAcfun" -> {ClaimedScaled(arg.recs[comment.No + 1].Size, arg.fs)}
      [] fn = "parseNiconico" -> {arg.fs * 100, arg.fs * 150, arg.fs * 50}

\* C12: every Comment a parser emits, for a base font size above 0, has a size
\* above 0: rawSize * baseFontSize / 25 for the Bilibili and AcFun parsers
\* (50 with base 20 gives 40), for every raw size a record can hold, and the
\* base size times 1, 1.5 or 0.5 for the Niconico parser.
SizeIsPositive ==
    (fn \in {"parseBilibili", "parseNiconico", "parseAcfun"} /\ pc = "return") =>
        \A k \in 1..Len(ret.comments) :
            /\ ret.comments[k].Size > 0
            /\ ret.comments[k].Size \in ClaimedSizes(ret.comments[k])

====
